---- MODULE Spec2Model ----
(***************************************************************************)
(* Model of library/files.py: the FileObject analysis session, its range   *)
(* validation, its per-section batches and its whole-file aggregate.  The  *)
(* entropy engine (library/entropy.py, RunningEntropy) is modelled from    *)
(* the design document, section 4.1.                                       *)
(***************************************************************************)
EXTENDS Integers, Sequences, FiniteSets, TLC

\* file:    the bytes of the file named self.filename, as they are on disk
\* self:    the FileObject
\* ret:     the outcome of the latest call that ended
\* ncalls:  the number of calls that ended
\* call:    the arguments of the one call of a single-call session
\* threads: the running_entropy calls in progress, one per thread
VARIABLES file, self, ret, ncalls, call, threads

vars == <<file, self, ret, ncalls, call, threads>>

-----------------------------------------------------------------------------
(* Bounds of the model.                                                    *)

\* Largest file of a session that makes one call.
MaxFileSize == 3
\* Largest number of sections of a parsed file.
MaxSections == 2
\* Size of the file of a session that makes a sequence of calls, and the
\* largest number of calls of such a session.
MaxSessionSize == 2
MaxCalls == 2

-----------------------------------------------------------------------------
(* Python values.                                                          *)

\* Python's None and a present value: <<>> is None, <<v>> is the value v.
None == <<>>
Some(v) == <<v>>

\* The byte values that occur in the modelled files.
Bytes == {0, 1}

\* Python's s[i:j] for i >= 0: a negative j counts from the end, and both
\* ends are clamped to the sequence.
PySlice(s, i, j) ==
    LET n == Len(s)
        hi0 == IF j < 0 THEN j + n ELSE j
        hi == IF hi0 < 0 THEN 0 ELSE IF hi0 > n THEN n ELSE hi0
        lo == IF i > n THEN n ELSE i
    IN IF hi <= lo THEN <<>> ELSE [k \in 1..(hi - lo) |-> s[lo + k]]

\* An exception raised to the caller, and a returned value.
Raise(kind) == [kind |-> kind, value |-> None]
Return(v) == [kind |-> "ok", value |-> Some(v)]

-----------------------------------------------------------------------------
(* Entropy engine: RunningEntropy(window, normalize).calculate(bytes).      *)

RECURSIVE Gcd(_, _)
Gcd(a, b) == IF b = 0 THEN a ELSE Gcd(b, a % b)

RECURSIVE GcdOf(_)
GcdOf(S) == IF S = {} THEN 0
            ELSE LET x == CHOOSE y \in S : TRUE IN Gcd(x, GcdOf(S \ {x}))

\* Frequency histogram of one slice over the byte values.
Histogram(slice) ==
    [b \in Bytes |-> Cardinality({k \in 1..Len(slice) : slice[k] = b})]

\* The Shannon entropy H = -SUM p_i * log2(p_i) of one slice is a function
\* of the probabilities p_i alone; it is kept exactly, as the multiset of
\* the non-zero counts reduced by their gcd ({<<1, 1>>} is H = 0), together
\* with the divisor applied to it (8 when normalized, and H = 0 stays 0).
ShannonEntropy(slice, normalize) ==
    LET h == Histogram(slice)
        counts == {h[b] : b \in Bytes} \ {0}
        g == GcdOf(counts)
        p == {<<c \div g, Cardinality({b \in Bytes : h[b] = c})>> : c \in counts}
    IN [p |-> p, div |-> IF normalize /\ Cardinality(counts) > 1 THEN 8 ELSE 1]

\* The consecutive, non-overlapping slices of window bytes; the last one is
\* shorter when window does not divide the length.
RECURSIVE Partition(_, _)
Partition(bytes, window) ==
    IF Len(bytes) = 0 THEN <<>>
    ELSE IF Len(bytes) <= window THEN <<bytes>>
    ELSE <<SubSeq(bytes, 1, window)>>
         \o Partition(SubSeq(bytes, window + 1, Len(bytes)), window)

\* compute_series: bytes must be non-empty and window a positive integer
\* not larger than len(bytes); anything else is an invalid range.
calculate(bytes, window, normalize) ==
    IF Len(bytes) = 0 \/ window < 1 \/ window > Len(bytes)
    THEN Raise("InvalidRange")
    ELSE LET slices == Partition(bytes, window)
         IN Return([k \in 1..Len(slices) |-> ShannonEntropy(slices[k], normalize)])

-----------------------------------------------------------------------------
(* FileObject: construction.                                               *)

\* One section of the parsed PE file, as pefile exposes it.
Section(name, offset, length) ==
    [Name |-> name, PointerToRawData |-> offset, SizeOfRawData |-> length]

\* _parse_file_type: a PE file is parsed into its sections, anything else
\* leaves parsedfile None.
ParsedFile(sections) ==
    [type |-> "pefile", file |-> sections,
     running_entropy |-> None, entropy |-> None]

\* The session after __init__: the members' defaults, then the bytes read by
\* _read_file.  running_entropy_offset, running_entropy_length and
\* file_entropy are not set by __init__ (None stands for the missing
\* attribute).
FileObject(bytes, parsedfile) ==
    [data |-> bytes,
     file_size |-> Len(bytes),
     parsedfile |-> parsedfile,
     running_entropy_data |-> None,
     running_entropy_window_size |-> 0,
     running_entropy_offset |-> None,
     running_entropy_length |-> None,
     file_entropy |-> None]

-----------------------------------------------------------------------------
(* FileObject.running_entropy.                                             *)

\* The offset check with the bound off by one.
OffsetInvalid_OffByOne(s, window_size, offset) ==
    offset >= s.file_size - window_size \/ offset < 0

\* Line 159: the offset check.
OffsetInvalid(s, window_size, offset) ==
    offset > s.file_size - window_size \/ offset < 0

\* The length check with the bound off by one.
LengthInvalid_OffByOne(s, offset, length) ==
    length # None /\ length[1] + offset >= s.file_size

\* Lines 165-166: the length check, made only when a length is given.
LengthInvalid(s, offset, length) ==
    length # None /\ length[1] + offset > s.file_size

\* The length used, an omitted length being taken from the span recorded by
\* the call before, when there is one.
SpanLength_Stale(s, offset, length) ==
    IF length # None THEN length[1]
    ELSE IF s.running_entropy_length # None THEN s.running_entropy_length[1]
    ELSE s.file_size - offset

\* Lines 165-172: the length used, file_size - offset when it is omitted.
SpanLength(s, offset, length) ==
    IF length # None THEN length[1] ELSE s.file_size - offset

\* Line 174: data = self.data[offset:length + offset].
SpanData(s, offset, length) ==
    PySlice(s.data, offset, length + offset)

\* Lines 175-178: the offset, the length and the window size are recorded.
RecordSpan(s, window_size, offset, length) ==
    [s EXCEPT !.running_entropy_offset = Some(offset),
              !.running_entropy_length = Some(length),
              !.running_entropy_window_size = window_size]

\* Line 179: the series is stored in the session.
RecordSeries(s, series) ==
    [s EXCEPT !.running_entropy_data = Some(series)]

\* The whole method, run without interruption.  The result is the session
\* after the call and the outcome (kind "ok" with the value returned, or the
\* kind of the exception raised).
running_entropy(s, window_size, normalize, offset, length) ==
    IF OffsetInvalid(s, window_size, offset)
    THEN [self |-> s, out |-> Raise("InvalidRange")]
    ELSE IF LengthInvalid(s, offset, length)
    THEN [self |-> s, out |-> Raise("InvalidRange")]
    ELSE LET len == SpanLength(s, offset, length)
             data == SpanData(s, offset, len)
             s1 == RecordSpan(s, window_size, offset, len)
             r == calculate(data, window_size, normalize)
         IN IF r.kind # "ok"
            THEN [self |-> s1, out |-> r]
            ELSE LET s2 == RecordSeries(s1, r.value[1])
                 IN [self |-> s2, out |-> Return(s2.running_entropy_data[1])]

-----------------------------------------------------------------------------
(* FileObject.entropy: the whole-file aggregate.                           *)

entropy(s, normalize) ==
    LET r == calculate(s.data, Len(s.data), normalize)
    IN IF r.kind # "ok" THEN [self |-> s, out |-> r]
       ELSE IF Len(r.value[1]) > 1
       THEN [self |-> s, out |-> Raise("InvariantViolation")]
       ELSE LET s1 == [s EXCEPT !.file_entropy = Some(r.value[1][1])]
            IN [self |-> s1, out |-> Return(s1.file_entropy[1])]

-----------------------------------------------------------------------------
(* FileObject.parsed_file_running_entropy: the per-section batch.          *)

\* Lines 91-94: the entry appended for one section.
RunningEntry(section, window_size, normalize, series) ==
    [name |-> section.Name,
     offset |-> section.PointerToRawData,
     length |-> section.SizeOfRawData,
     entropy_window_length |-> window_size,
     normalize |-> normalize,
     running_entropy |-> series]

\* The call made for one section, the offset being left out.
SectionRunningEntropy_NoOffset(s, section, window_size, normalize) ==
    running_entropy(s, window_size, normalize, 0, Some(section.SizeOfRawData))

\* Lines 95-98: the call made for one section.
SectionRunningEntropy(s, section, window_size, normalize) ==
    running_entropy(s, window_size, normalize,
                    section.PointerToRawData, Some(section.SizeOfRawData))

\* Lines 84-99: the loop from section i on; an exception of running_entropy
\* leaves the loop and the method at once.
RECURSIVE RunningSections(_, _, _, _)
RunningSections(s, i, window_size, normalize) ==
    IF i > Len(s.parsedfile[1].file)
    THEN [self |-> s, out |-> Return(s.parsedfile[1].running_entropy[1])]
    ELSE LET section == s.parsedfile[1].file[i]
             r == SectionRunningEntropy(s, section, window_size, normalize)
         IN IF r.out.kind # "ok" THEN r
            ELSE LET entry == RunningEntry(section, window_size, normalize,
                                           r.out.value[1])
                     s1 == [r.self EXCEPT
                              !.parsedfile[1].running_entropy[1].sections =
                                  Append(@, entry)]
                 IN RunningSections(s1, i + 1, window_size, normalize)

parsed_file_running_entropy(s, window_size, normalize) ==
    IF s.parsedfile = None THEN [self |-> s, out |-> Return(None)]
    ELSE LET s1 == [s EXCEPT !.parsedfile[1].running_entropy =
                                 Some([sections |-> <<>>])]
         IN RunningSections(s1, 1, window_size, normalize)

-----------------------------------------------------------------------------
(* FileObject.parsed_file_entropy: the per-section aggregate.              *)

\* Lines 134-137: the entry appended for one section.
EntropyEntry(section, normalize, entval) ==
    [name |-> section.Name,
     offset |-> section.PointerToRawData,
     length |-> section.SizeOfRawData,
     normalize |-> normalize,
     entropy |-> entval]

\* The call made for one section with a window of one byte.
SectionEntropy_WindowOfOne(s, section, normalize) ==
    running_entropy(s, 1, normalize,
                    section.PointerToRawData, Some(section.SizeOfRawData))

\* Lines 126-129: the call made for one section, the window being the
\* section's length.
SectionEntropy(s, section, normalize) ==
    running_entropy(s, section.SizeOfRawData, normalize,
                    section.PointerToRawData, Some(section.SizeOfRawData))

RECURSIVE EntropySections(_, _, _)
EntropySections(s, i, normalize) ==
    IF i > Len(s.parsedfile[1].file)
    THEN [self |-> s, out |-> Return(s.parsedfile[1].entropy[1])]
    ELSE LET section == s.parsedfile[1].file[i]
             r == SectionEntropy(s, section, normalize)
         IN IF r.out.kind # "ok" THEN r
            ELSE IF Len(r.out.value[1]) > 1
            THEN [self |-> r.self, out |-> Raise("InvariantViolation")]
            ELSE LET entry == EntropyEntry(section, normalize, r.out.value[1][1])
                     s1 == [r.self EXCEPT
                              !.parsedfile[1].entropy[1].sections =
                                  Append(@, entry)]
                 IN EntropySections(s1, i + 1, normalize)

parsed_file_entropy(s, normalize) ==
    IF s.parsedfile = None THEN [self |-> s, out |-> Return(None)]
    ELSE LET s1 == [s EXCEPT !.parsedfile[1].entropy =
                                 Some([sections |-> <<>>])]
         IN EntropySections(s1, 1, normalize)

-----------------------------------------------------------------------------
(* Inputs.                                                                 *)

\* The files of at most n bytes.
Buffers(n) == UNION {[1..k -> Bytes] : k \in 0..n}

\* The two files of n bytes of the design's end-to-end examples: filled with
\* one byte value, and alternating between two.
ExampleFiles(n) == {[k \in 1..n |-> 0], [k \in 1..n |-> (k + 1) % 2]}

\* The arguments tried on a file of at most n bytes: every window up to one
\* more than the file, every offset from -1 up to the file's size, and the
\* length omitted or from -1 up to one more than the file.
Windows(n) == 1..(n + 1)
Offsets(n) == (-1)..n
Lengths(n) == {None} \cup {Some(l) : l \in (-1)..(n + 1)}

SectionName(i) == IF i = 1 THEN ".text" ELSE IF i = 2 THEN ".data" ELSE ".rsrc"

\* The section tables of at most m sections over a file of at most n bytes,
\* listed in file order: any raw offset inside the file and any raw size
\* that ends at most one byte past it.
SectionBounds(n) == {x \in (0..n) \X (0..(n + 1)) : x[1] + x[2] <= n + 1}

InFileOrder(f) ==
    \A i, j \in DOMAIN f : i < j => f[i][1] <= f[j][1]

SectionTables(n, m) ==
    UNION {{[i \in 1..k |-> Section(SectionName(i), f[i][1], f[i][2])] :
              f \in {g \in [1..k -> SectionBounds(n)] : InFileOrder(g)}} :
           k \in 0..m}

\* What pefile gives: nothing for a file that is no PE file, else a table.
ParsedFiles(n, m) == {None} \cup {Some(ParsedFile(t)) : t \in SectionTables(n, m)}

\* The tables of a file of n bytes laid out as .text then .data, whole or
\* with its last byte cut off.
LaidOutTables(n) ==
    UNION {{<<Section(SectionName(1), 0, k), Section(SectionName(2), k, l)>> :
              l \in {n - k, n + 1 - k}} : k \in 1..n}

NoCall == [op |-> "none", window_size |-> 0, normalize |-> FALSE,
           offset |-> 0, length |-> None]

Call(op, window_size, normalize, offset, length) ==
    [op |-> op, window_size |-> window_size, normalize |-> normalize,
     offset |-> offset, length |-> length]

\* The running_entropy calls tried on a file of at most n bytes.
RunningEntropyCalls(n) ==
    {Call("running_entropy", w, nz, o, l) :
        w \in Windows(n), nz \in BOOLEAN, o \in Offsets(n), l \in Lengths(n)}

\* The running_entropy calls tried in a sequence of calls on a file of n
\* bytes: as above, but for the values past the file's last byte.
SessionCalls(n) == RunningEntropyCalls(n - 1)

\* The calls that name their own range or take the whole file.
DirectCalls(n) ==
    RunningEntropyCalls(n) \cup {Call("entropy", 0, nz, 0, None) : nz \in BOOLEAN}

\* The calls that take their ranges from the section table.
SectionCalls(n) ==
    {Call("parsed_file_running_entropy", w, nz, 0, None) :
        w \in Windows(n), nz \in BOOLEAN}
    \cup {Call("parsed_file_entropy", 0, nz, 0, None) : nz \in BOOLEAN}

NoResult == [op |-> "none", kind |-> "none", value |-> None]

Result(op, out) == [op |-> op, kind |-> out.kind, value |-> out.value]

-----------------------------------------------------------------------------
(* Operations of a session, each run from call to return.                  *)

RunningEntropy(window_size, normalize, offset, length) ==
    LET r == running_entropy(self, window_size, normalize, offset, length)
    IN /\ self' = r.self
       /\ ret' = Result("running_entropy", r.out)
       /\ ncalls' = ncalls + 1
       /\ UNCHANGED <<file, call, threads>>

Entropy(normalize) ==
    LET r == entropy(self, normalize)
    IN /\ self' = r.self
       /\ ret' = Result("entropy", r.out)
       /\ ncalls' = ncalls + 1
       /\ UNCHANGED <<file, call, threads>>

ParsedFileRunningEntropy(window_size, normalize) ==
    LET r == parsed_file_running_entropy(self, window_size, normalize)
    IN /\ self' = r.self
       /\ ret' = Result("parsed_file_running_entropy", r.out)
       /\ ncalls' = ncalls + 1
       /\ UNCHANGED <<file, call, threads>>

ParsedFileEntropy(normalize) ==
    LET r == parsed_file_entropy(self, normalize)
    IN /\ self' = r.self
       /\ ret' = Result("parsed_file_entropy", r.out)
       /\ ncalls' = ncalls + 1
       /\ UNCHANGED <<file, call, threads>>

-----------------------------------------------------------------------------
(* SpecCall: one call on a new session, the file, the section table and    *)
(* the call's arguments being drawn at the start.                          *)

InitCall ==
    /\ \/ /\ file \in Buffers(MaxFileSize)
          /\ self = FileObject(file, None)
          /\ call \in DirectCalls(MaxFileSize)
       \/ /\ file \in Buffers(MaxFileSize)
          /\ \E p \in ParsedFiles(MaxFileSize, MaxSections) :
                self = FileObject(file, p)
          /\ call \in SectionCalls(MaxFileSize)
    /\ ret = NoResult
    /\ ncalls = 0
    /\ threads = <<>>

CallRunningEntropy ==
    /\ ncalls = 0 /\ call.op = "running_entropy"
    /\ RunningEntropy(call.window_size, call.normalize, call.offset, call.length)

CallEntropy ==
    /\ ncalls = 0 /\ call.op = "entropy"
    /\ Entropy(call.normalize)

CallParsedFileRunningEntropy ==
    /\ ncalls = 0 /\ call.op = "parsed_file_running_entropy"
    /\ ParsedFileRunningEntropy(call.window_size, call.normalize)

CallParsedFileEntropy ==
    /\ ncalls = 0 /\ call.op = "parsed_file_entropy"
    /\ ParsedFileEntropy(call.normalize)

NextCall ==
    \/ CallRunningEntropy
    \/ CallEntropy
    \/ CallParsedFileRunningEntropy
    \/ CallParsedFileEntropy

SpecCall == InitCall /\ [][NextCall]_vars

-----------------------------------------------------------------------------
(* Spec: one session on which a sequence of calls is made, one after the   *)
(* other, with any arguments.                                              *)

Init ==
    /\ file \in ExampleFiles(MaxSessionSize)
    /\ \E p \in {None} \cup {Some(ParsedFile(t)) : t \in LaidOutTables(MaxSessionSize)} :
          self = FileObject(file, p)
    /\ call = NoCall
    /\ ret = NoResult
    /\ ncalls = 0
    /\ threads = <<>>

SessionRunningEntropy ==
    /\ ncalls < MaxCalls
    /\ \E c \in SessionCalls(MaxSessionSize) :
          RunningEntropy(c.window_size, c.normalize, c.offset, c.length)

SessionEntropy ==
    /\ ncalls < MaxCalls
    /\ \E nz \in BOOLEAN : Entropy(nz)

SessionParsedFileRunningEntropy ==
    /\ ncalls < MaxCalls
    /\ \E w \in Windows(MaxSessionSize - 1), nz \in BOOLEAN :
          ParsedFileRunningEntropy(w, nz)

SessionParsedFileEntropy ==
    /\ ncalls < MaxCalls
    /\ \E nz \in BOOLEAN : ParsedFileEntropy(nz)

Next ==
    \/ SessionRunningEntropy
    \/ SessionEntropy
    \/ SessionParsedFileRunningEntropy
    \/ SessionParsedFileEntropy

Spec == Init /\ [][Next]_vars

-----------------------------------------------------------------------------
(* SpecThreads: running_entropy called on one session by several threads   *)
(* at once.  A thread may be interrupted between any two statements of the *)
(* method; the statements that touch only the call's own locals and the    *)
(* fields no call writes (lines 157-174) are taken as one step.            *)

Threads == {1, 2}

Thread(c) ==
    [pc |-> "call", window_size |-> c.window_size, normalize |-> c.normalize,
     offset |-> c.offset, length |-> c.length,
     len |-> 0, data |-> <<>>, out |-> NoResult]

InitThreads ==
    /\ file \in [1..MaxSessionSize -> Bytes]
    /\ self = FileObject(file, None)
    /\ threads \in [Threads -> {Thread(c) : c \in SessionCalls(MaxSessionSize)}]
    /\ call = NoCall
    /\ ret = NoResult
    /\ ncalls = 0

\* The thread's call ends with the outcome out.
ThreadEnds(t, out) ==
    /\ threads' = [threads EXCEPT ![t].pc = "done",
                                  ![t].out = Result("running_entropy", out)]
    /\ ret' = Result("running_entropy", out)
    /\ ncalls' = ncalls + 1

\* Lines 157-174: the checks, the length and the slice.
ThreadValidate(t) ==
    LET th == threads[t]
    IN /\ th.pc = "call"
       /\ IF \/ OffsetInvalid(self, th.window_size, th.offset)
             \/ LengthInvalid(self, th.offset, th.length)
          THEN ThreadEnds(t, Raise("InvalidRange"))
          ELSE LET len == SpanLength(self, th.offset, th.length)
               IN /\ threads' = [threads EXCEPT
                                   ![t].pc = "record_offset",
                                   ![t].len = len,
                                   ![t].data = SpanData(self, th.offset, len)]
                  /\ UNCHANGED <<ret, ncalls>>
       /\ UNCHANGED <<file, self, call>>

\* Line 175: self.running_entropy_offset = offset.
ThreadRecordOffset(t) ==
    /\ threads[t].pc = "record_offset"
    /\ self' = [self EXCEPT !.running_entropy_offset = Some(threads[t].offset)]
    /\ threads' = [threads EXCEPT ![t].pc = "record_length"]
    /\ UNCHANGED <<file, ret, ncalls, call>>

\* Line 176: self.running_entropy_length = length.
ThreadRecordLength(t) ==
    /\ threads[t].pc = "record_length"
    /\ self' = [self EXCEPT !.running_entropy_length = Some(threads[t].len)]
    /\ threads' = [threads EXCEPT ![t].pc = "record_window_size"]
    /\ UNCHANGED <<file, ret, ncalls, call>>

\* Line 178: self.running_entropy_window_size = window_size.
ThreadRecordWindowSize(t) ==
    /\ threads[t].pc = "record_window_size"
    /\ self' = [self EXCEPT !.running_entropy_window_size = threads[t].window_size]
    /\ threads' = [threads EXCEPT ![t].pc = "calculate"]
    /\ UNCHANGED <<file, ret, ncalls, call>>

\* Line 179: self.running_entropy_data = runent.calculate(data).
ThreadCalculate(t) ==
    LET th == threads[t]
        r == calculate(th.data, th.window_size, th.normalize)
    IN /\ th.pc = "calculate"
       /\ IF r.kind # "ok"
          THEN ThreadEnds(t, r) /\ UNCHANGED self
          ELSE /\ self' = RecordSeries(self, r.value[1])
               /\ threads' = [threads EXCEPT ![t].pc = "return"]
               /\ UNCHANGED <<ret, ncalls>>
       /\ UNCHANGED <<file, call>>

\* Line 180: return self.running_entropy_data.
ThreadReturn(t) ==
    /\ threads[t].pc = "return"
    /\ ThreadEnds(t, Return(self.running_entropy_data[1]))
    /\ UNCHANGED <<file, self, call>>

NextThreads ==
    \E t \in Threads :
        \/ ThreadValidate(t)
        \/ ThreadRecordOffset(t)
        \/ ThreadRecordLength(t)
        \/ ThreadRecordWindowSize(t)
        \/ ThreadCalculate(t)
        \/ ThreadReturn(t)

SpecThreads == InitThreads /\ [][NextThreads]_vars

-----------------------------------------------------------------------------
(* Properties of one call (SpecCall).                                      *)

\* The single call has ended and was a call of op.
Called(op) == ncalls = 1 /\ call.op = op

\* The span a running_entropy call asks for: its length, or the rest of the
\* file from its offset when the length is omitted.
RequestedSpan ==
    IF call.length # None THEN call.length[1] ELSE Len(file) - call.offset

\* ceil(a / b) for b > 0.
CeilDiv(a, b) == -((-a) \div b)

OffsetInRange ==
    0 <= call.offset /\ call.offset <= Len(file) - call.window_size

\* C1: every running_entropy call that passes the range validation returns
\* a series of exactly ceil(length / window_size) entries, length being
\* file_size - offset when it is omitted.
C1_SeriesLength ==
    (Called("running_entropy") /\ ret.kind = "ok")
        => Len(ret.value[1]) = CeilDiv(RequestedSpan, call.window_size)

\* C2: running_entropy fails with InvalidRange whenever the offset is outside
\* 0 .. file_size - window_size (so for every offset when the window is
\* larger than the file), and with the length omitted it accepts every
\* offset inside that range, file_size - window_size included.
C2_OffsetRange ==
    Called("running_entropy")
        => /\ ~OffsetInRange => ret.kind = "InvalidRange"
           /\ (OffsetInRange /\ call.length = None) => ret.kind = "ok"

\* A call at the largest accepted offset, which is not 0, has returned.
C2_Witness ==
    /\ Called("running_entropy")
    /\ call.length = None
    /\ call.offset = Len(file) - call.window_size
    /\ call.offset > 0
    /\ ret.kind = "ok"

\* C3 as stated, for the lengths of at least one byte: with a length given
\* and a valid offset, the call fails with InvalidRange exactly when
\* offset + length > file_size.
C3_RejectedExactlyPastEnd ==
    (Called("running_entropy") /\ call.length # None /\ OffsetInRange
        /\ call.length[1] >= 1)
        => (ret.kind = "InvalidRange"
               <=> call.offset + call.length[1] > Len(file))

\* C3 amended: with a length given and a valid offset, the call fails with
\* InvalidRange when offset + length > file_size, and otherwise exactly when
\* the bytes data[offset:offset + length] are fewer than window_size (for a
\* length >= 0: when length < window_size); so offset + length = file_size
\* is accepted when length >= window_size, and file_size + 1 never is.
C3_LengthCheck ==
    (Called("running_entropy") /\ call.length # None /\ OffsetInRange)
        => LET end == call.offset + call.length[1]
               selected == IF end >= call.offset THEN end - call.offset
                           ELSE IF end >= 0 THEN 0
                           ELSE IF Len(file) + end > call.offset
                                THEN Len(file) + end - call.offset
                           ELSE 0
           IN /\ end > Len(file) => ret.kind = "InvalidRange"
              /\ end <= Len(file)
                   => (ret.kind = "InvalidRange" <=> selected < call.window_size)
              /\ ret.kind \in {"ok", "InvalidRange"}

\* A call whose span ends exactly at the end of the file has returned.
C3_Witness ==
    /\ Called("running_entropy")
    /\ call.length # None
    /\ call.offset > 0
    /\ call.offset + call.length[1] = Len(file)
    /\ call.length[1] > call.window_size
    /\ ret.kind = "ok"

\* C4: a running_entropy call whose window is larger than the span it asks
\* for fails with InvalidRange, it never returns a series.
C4_WindowLargerThanSpan ==
    (Called("running_entropy") /\ call.window_size > RequestedSpan)
        => ret.kind = "InvalidRange"

\* The section table of the session and the report the batch stores in it.
SectionTable == self.parsedfile[1].file
StoredRunningEntropy == self.parsedfile[1].running_entropy

\* Section i fails one of the two checks of running_entropy.
FailsValidation(i) ==
    LET o == SectionTable[i].PointerToRawData
        l == SectionTable[i].SizeOfRawData
    IN o > Len(file) - call.window_size \/ o + l > Len(file)

\* C5: when a section fails the range validation the batch ends with that
\* error and leaves no incomplete report (the entries of the sections before
\* the failing one) stored in the session.
C5_NoPartialReport ==
    (/\ Called("parsed_file_running_entropy") /\ self.parsedfile # None
     /\ \E i \in 1..Len(SectionTable) : FailsValidation(i))
        => /\ ret.kind = "InvalidRange"
           /\ \/ StoredRunningEntropy = None
              \/ StoredRunningEntropy[1].sections = <<>>

\* What a direct running_entropy call with the bounds of section i returns
\* on a new session over the same file.
DirectCall(i) ==
    running_entropy(FileObject(file, None), call.window_size, call.normalize,
                    SectionTable[i].PointerToRawData,
                    Some(SectionTable[i].SizeOfRawData)).out

\* C6: when every section passes, the batch returns one entry per section,
\* in the table's order, each with the section's name, offset and length and
\* the series the direct call with these bounds returns.
C6_BatchMatchesDirectCalls ==
    (Called("parsed_file_running_entropy") /\ self.parsedfile # None
        /\ \A i \in 1..Len(SectionTable) : DirectCall(i).kind = "ok")
        => /\ ret.kind = "ok"
           /\ Len(ret.value[1].sections) = Len(SectionTable)
           /\ \A i \in 1..Len(SectionTable) :
                LET e == ret.value[1].sections[i]
                IN /\ e.name = SectionTable[i].Name
                   /\ e.offset = SectionTable[i].PointerToRawData
                   /\ e.length = SectionTable[i].SizeOfRawData
                   /\ e.running_entropy = DirectCall(i).value[1]

\* A batch over two sections at different offsets has returned, one of the
\* series ending with a shorter window.
C6_Witness ==
    /\ Called("parsed_file_running_entropy") /\ self.parsedfile # None
    /\ ret.kind = "ok"
    /\ Len(ret.value[1].sections) = 2
    /\ ret.value[1].sections[2].offset > ret.value[1].sections[1].offset
    /\ ret.value[1].sections[1].name # ret.value[1].sections[2].name
    /\ \E i \in 1..2 :
          /\ Len(ret.value[1].sections[i].running_entropy) = 2
          /\ ret.value[1].sections[i].length = 3

\* The bytes of the file from offset on, length of them.
FileBytes(offset, length) == [k \in 1..length |-> file[offset + k]]

\* C9: the more-than-one-slice check never fires: the whole-file aggregate
\* of a non-empty file, and the per-section aggregate of sections of at
\* least one byte that lie inside the file, each return the entropy of the
\* one slice.
C9_OneSlice ==
    /\ ret.kind # "InvariantViolation"
    /\ (Called("entropy") /\ Len(file) >= 1)
         => /\ ret.kind = "ok"
            /\ ret.value[1] = ShannonEntropy(file, call.normalize)
    /\ (/\ Called("parsed_file_entropy") /\ self.parsedfile # None
        /\ \A i \in 1..Len(SectionTable) :
              /\ SectionTable[i].SizeOfRawData >= 1
              /\ SectionTable[i].PointerToRawData + SectionTable[i].SizeOfRawData
                    <= Len(file))
         => /\ ret.kind = "ok"
            /\ Len(ret.value[1].sections) = Len(SectionTable)
            /\ \A i \in 1..Len(SectionTable) :
                 ret.value[1].sections[i].entropy =
                    ShannonEntropy(FileBytes(SectionTable[i].PointerToRawData,
                                             SectionTable[i].SizeOfRawData),
                                   call.normalize)

\* The per-section aggregate of two sections of more than one byte has
\* returned.
C9_Witness ==
    /\ Called("parsed_file_entropy") /\ self.parsedfile # None
    /\ ret.kind = "ok"
    /\ Len(ret.value[1].sections) = 2
    /\ \A i \in 1..2 : ret.value[1].sections[i].length >= 2

-----------------------------------------------------------------------------
(* Properties of a sequence of calls (Spec).                               *)

\* The outcome of a running_entropy call c on the session s.
Outcome(s, c) ==
    running_entropy(s, c.window_size, c.normalize, c.offset, c.length).out

\* C8: after any sequence of calls the file's bytes and file_size are what
\* was read when the session was made, and every running_entropy call has
\* the outcome it has on a new session over the same file: the outcome is a
\* function of the arguments and the buffer, whatever was called before.
C8_OutcomeOfArgumentsAndBuffer ==
    /\ self.data = file
    /\ self.file_size = Len(file)
    /\ \A c \in SessionCalls(MaxSessionSize) :
          Outcome(self, c) = Outcome(FileObject(file, None), c)

\* Two calls were made, they recorded a span shorter than the file and a
\* report of the sections.
C8_Witness ==
    /\ ncalls = 2
    /\ self.running_entropy_data # None
    /\ self.running_entropy_length # None
    /\ self.running_entropy_length[1] < Len(file)
    /\ self.parsedfile # None
    /\ self.parsedfile[1].running_entropy # None

\* The four values running_entropy records in the session.
Recorded(s) ==
    <<s.running_entropy_offset, s.running_entropy_length,
      s.running_entropy_window_size, s.running_entropy_data>>

\* C10, for the calls on a span of at least one byte: a running_entropy call
\* that fails with InvalidRange leaves the recorded offset, length,
\* window_size and series as they were.
C10_FailedCallKeepsRecord ==
    [][(/\ ret'.op = "running_entropy" /\ ret'.kind = "InvalidRange"
        /\ self'.running_entropy_length # None
        /\ self'.running_entropy_length[1] >= 1)
          => Recorded(self') = Recorded(self)]_vars

-----------------------------------------------------------------------------
(* Properties of concurrent calls (SpecThreads).                           *)

\* C7: under every interleaving a call that returns, returns the series of
\* its own offset, length, window_size and normalize.
C7_CallReturnsItsOwnSeries ==
    \A t \in Threads :
        (threads[t].pc = "done" /\ threads[t].out.kind = "ok")
            => threads[t].out.value[1] =
                 Outcome(FileObject(file, None), threads[t]).value[1]

====
